---- MODULE Spec2Model ----
(***************************************************************************)
(* A model of skweak/spacy.py: the model-backed annotators' streaming      *)
(* protocol (ModelAnnotator.pipe / SpanMarkerModelAnnotator.pipe), the     *)
(* document cloning of create_new_doc with TruecaseAnnotator's truecasing, *)
(* and LabelMapper.                                                        *)
(*                                                                         *)
(* A token is a record [text, ws, sent_start]: text is the sequence of its *)
(* characters (one-character strings), ws is "tok.whitespace_ is not       *)
(* empty", sent_start is tok.is_sent_start.  A document is a sequence of   *)
(* tokens.  A span is a triple <<start, end, label>>.                      *)
(***************************************************************************)
EXTENDS Integers, Sequences, FiniteSets, TLC

VARIABLES
    \* ---- create_new_doc (specification SpecClone)
    cdoc,       \* the document handed to create_new_doc
    ctable,     \* TruecaseAnnotator.form_frequencies
    ckind,      \* "model" (ModelAnnotator) | "truecase" (TruecaseAnnotator)
    cpc,        \* "start" | "done" | the name of the error raised
    cres,       \* the clone create_new_doc returned
    \* ---- LabelMapper (specification SpecMapper)
    mspec,      \* the `mapping` argument of LabelMapper.__init__
    msources,   \* LabelMapper.sources
    minplace,   \* LabelMapper.inplace
    morig,      \* doc.spans before the first find_spans
    mspans,     \* doc.spans
    mtodo,      \* the sources the running find_spans has still to visit
    msrc,       \* `source`: the source being visited ("" between sources)
    mi,         \* the position in doc.spans[source] of the next span to visit
    mnew,       \* `new_group`
    mout,       \* the triples the running (or last) find_spans yielded
    mpc,        \* "idle" | "created" | "running" | "yielded" | "done"
    medits,     \* how many times the consumer relabelled a span between yields
    mruns,      \* how many times find_spans was started on the document
    mfirst,     \* doc.spans when the first find_spans was exhausted
    \* ---- pipe (specification Spec)
    pkind,      \* "model" (ModelAnnotator, SpanMarkerModelAnnotator) | "truecase"
    ptable,     \* form_frequencies of a TruecaseAnnotator
    pdocs,      \* the input stream d1..dn: the tokens of each document
    pbatch,     \* the batch size of each stage of self.model.pipeline
    pbefore,    \* doc.spans[self.name] of each document when pipe was called
    pgroup,     \* doc.spans[self.name] of each document
    p1,         \* how many documents stream1 (a tee view) has pulled
    p2,         \* how many documents stream2's tee view has pulled
    pacc,       \* per stage: the batch being collected
    pbuf,       \* per stage: the processed batch not yet yielded
    pexh,       \* the exhausted generators (0: the cloning generator)
    plvl,       \* the generator running while zip pulls stream2
    ppc,        \* "idle" | "zip1" | "zip2" | "attach" | "done" | "raised"
    pcur,       \* `doc`: the position of the document zip took from stream1
    pcopy,      \* `doc_copy`: the item zip took from stream2
    pyield,     \* what pipe has yielded to its consumer
    perr,       \* the error that reached the consumer ("" for none)
    pruns       \* how many times pipe was called on the stream

cvars == <<cdoc, ctable, ckind, cpc, cres>>
mvars == <<mspec, msources, minplace, morig, mspans, mtodo, msrc, mi, mnew,
           mout, mpc, medits, mruns, mfirst>>

pvars == <<pkind, ptable, pdocs, pbatch, pbefore, pgroup, p1, p2, pacc, pbuf,
           pexh, plvl, ppc, pcur, pcopy, pyield, perr, pruns>>

vars == <<cvars, mvars, pvars>>

-----------------------------------------------------------------------------
(* Characters: str.isupper / islower / isalpha / isspace / lower.          *)

UpperChars == {"N", "A", "T", "O", "U"}
LowerChars == {"n", "a", "t", "o", "u"}

IsUpperCh(c) == c \in UpperChars
IsLowerCh(c) == c \in LowerChars
IsAlphaCh(c) == IsUpperCh(c) \/ IsLowerCh(c)
IsSpaceCh(c) == c \in {" ", "\n"}

LowerCh(c) ==
    CASE c = "N" -> "n"
      [] c = "A" -> "a"
      [] c = "T" -> "t"
      [] c = "O" -> "o"
      [] c = "U" -> "u"
      [] OTHER -> c

\* str.lower()
Lower(s) == [i \in 1..Len(s) |-> LowerCh(s[i])]

\* str.isalpha(): non-empty and every character alphabetic
IsAlpha(s) == Len(s) > 0 /\ \A i \in 1..Len(s) : IsAlphaCh(s[i])

\* str.isupper(): at least one cased character and no lowercase one
IsUpper(s) ==
    /\ \E i \in 1..Len(s) : IsUpperCh(s[i])
    /\ \A i \in 1..Len(s) : ~IsLowerCh(s[i])

\* str.istitle(): uppercase characters only after uncased ones, lowercase
\* characters only after cased ones, and at least one cased character
IsTitle(s) ==
    /\ \E i \in 1..Len(s) : IsAlphaCh(s[i])
    /\ \A i \in 1..Len(s) :
          LET prevCased == i > 1 /\ IsAlphaCh(s[i - 1])
          IN  /\ IsUpperCh(s[i]) => ~prevCased
              /\ IsLowerCh(s[i]) => prevCased

-----------------------------------------------------------------------------
(* Documents.                                                              *)

RECURSIVE DocText(_)
\* doc.text: every token's text followed by one space when it has trailing
\* whitespace
DocText(doc) ==
    IF doc = <<>> THEN <<>>
    ELSE Head(doc).text \o (IF Head(doc).ws THEN <<" ">> ELSE <<>>)
            \o DocText(Tail(doc))

\* tok.idx of the i-th token (1-based position), as a 0-based character offset
TokIdx(doc, i) == Len(DocText(SubSeq(doc, 1, i - 1)))

\* A cloned Doc(vocab, words, spaces): texts and spaces, nothing else
MkDoc(words, spaces) ==
    [words |-> words, spaces |-> spaces, spans |-> <<>>]

\* ModelAnnotator.create_new_doc
BaseCreateNewDoc(doc) ==
    MkDoc([i \in 1..Len(doc) |-> doc[i].text],
          [i \in 1..Len(doc) |-> doc[i].ws])

-----------------------------------------------------------------------------
(* Form frequencies: a sequence of <<lowercased form, variants>>, variants *)
(* a sequence of <<surface form, frequency in percent>> in key order.      *)

MinProb == 25

HasKey(tbl, k) == \E i \in 1..Len(tbl) : tbl[i][1] = k

\* dict[k]
Lookup(tbl, k) == tbl[CHOOSE i \in 1..Len(tbl) : tbl[i][1] = k][2]

\* dict.get(k, 0)
GetFreq(freqs, k) == IF HasKey(freqs, k) THEN Lookup(freqs, k) ELSE 0

RECURSIVE InsertByFreq(_, _)
\* insertion that keeps equal frequencies in their original order
InsertByFreq(sorted, e) ==
    IF sorted = <<>> THEN <<e>>
    ELSE IF sorted[Len(sorted)][2] <= e[2] THEN Append(sorted, e)
    ELSE Append(InsertByFreq(SubSeq(sorted, 1, Len(sorted) - 1), e),
                sorted[Len(sorted)])

RECURSIVE SortedByFreq(_)
\* sorted(frequencies.keys(), key=lambda x: frequencies[x]): stable, ascending
SortedByFreq(freqs) ==
    IF freqs = <<>> THEN <<>>
    ELSE InsertByFreq(SortedByFreq(SubSeq(freqs, 1, Len(freqs) - 1)),
                      freqs[Len(freqs)])

\* frequencies.get(toktext, 0) < min_prob
BelowMinProb(freqs, toktext) == GetFreq(freqs, toktext) < MinProb

\* Mutant of Alternative: max(frequencies, key=...), the first one on ties
AlternativeFirstMax(freqs) ==
    freqs[CHOOSE v \in 1..Len(freqs) :
              /\ \A w \in 1..Len(freqs) : freqs[w][2] <= freqs[v][2]
              /\ \A w \in 1..(v - 1) : freqs[w][2] < freqs[v][2]][1]

\* sorted(...)[-1]: the key of maximal frequency, the last one on ties
Alternative(freqs) == SortedByFreq(freqs)[Len(freqs)][1]

\* Mutant of MayReplace: the guard of line 170 left out
MayReplaceAlways(toktext, alternative) == TRUE

\* The title-to-upper guard of line 170
MayReplace(toktext, alternative) == ~IsTitle(toktext) \/ ~IsUpper(alternative)

\* The token is looked up: lines 157-162
Qualifies(tok, tbl) ==
    /\ IsAlpha(tok.text) /\ IsUpperCh(tok.text[1])
    /\ LET cond1 == IsUpper(tok.text) /\ Len(tok.text) > 2
           cond2 == IsUpperCh(tok.text[1]) /\ ~tok.sent_start
       IN  cond1 \/ cond2
    /\ HasKey(tbl, Lower(tok.text))

\* The text appended to `tokens` for one token: lines 154-173
TruecaseText(tok, tbl) ==
    IF Qualifies(tok, tbl)
    THEN LET frequencies == Lookup(tbl, Lower(tok.text))
         IN  IF BelowMinProb(frequencies, tok.text)
             THEN LET alternative == Alternative(frequencies)
                  IN  IF MayReplace(tok.text, alternative)
                      THEN alternative
                      ELSE tok.text
             ELSE tok.text
    ELSE tok.text

\* The flag appended to `spaces` for the i-th token: lines 176-179
TruecaseSpace(doc, i) ==
    IF i - 1 < Len(doc) - 1
    THEN IsSpaceCh(DocText(doc)[TokIdx(doc, i) + Len(doc[i].text) + 1])
    ELSE FALSE

\* What TruecaseAnnotator.create_new_doc raises: "" when it returns
TruecaseRaises(doc, tbl) ==
    IF tbl = <<>> THEN "RuntimeError"
    ELSE IF \E i \in 1..Len(doc) :
                /\ Qualifies(doc[i], tbl)
                /\ BelowMinProb(Lookup(tbl, Lower(doc[i].text)), doc[i].text)
                /\ Lookup(tbl, Lower(doc[i].text)) = <<>>
         THEN "IndexError"
    ELSE ""

\* TruecaseAnnotator.create_new_doc, when it returns
TruecaseCreateNewDoc(doc, tbl) ==
    MkDoc([i \in 1..Len(doc) |-> TruecaseText(doc[i], tbl)],
          [i \in 1..Len(doc) |-> TruecaseSpace(doc, i)])

NoDoc == [words |-> <<>>, spaces |-> <<>>, spans |-> <<>>]

\* An item of stream2: the clone of the document at position `of`, the
\* entities the stages put on it, and how many stages have processed it
MkItem(of, clone) == [of |-> of, doc |-> clone, ents |-> <<>>, ran |-> 0]
NoItem == MkItem(0, NoDoc)

-----------------------------------------------------------------------------
(* Inputs of create_new_doc.                                               *)

MaxDocLen == 2
MaxVariants == 2

Nato == <<"N", "a", "t", "o">>
NATO == <<"N", "A", "T", "O">>
nato == <<"n", "a", "t", "o">>
UN == <<"U", "N">>
un == <<"u", "n">>

U2 == <<"U", "2">>
u2 == <<"u", "2">>
Newline == <<"\n">>

TokenTexts == {Nato, NATO, nato, UN, U2, Newline}
Tokens == [text : TokenTexts, ws : BOOLEAN, sent_start : BOOLEAN]

\* The first token of a document always starts a sentence
DocsOfLen(n) == {d \in [1..n -> Tokens] : n > 0 => d[1].sent_start}
Docs == UNION {DocsOfLen(n) : n \in 0..MaxDocLen}

FreqValues == {10, 25}
Variants == {nato, Nato, NATO} \X FreqValues
VariantSeqs ==
    UNION {{vs \in [1..n -> Variants] :
               \A i, j \in 1..n : i # j => vs[i][1] # vs[j][1]}
           : n \in 0..MaxVariants}

Tables ==
    {<<>>}
    \cup {<< <<nato, vs>> >> : vs \in VariantSeqs}
    \cup {<< <<un, << <<un, 25>> >> >> >>,
          << <<un, << <<un, 10>>, <<UN, 10>> >> >>,
             <<nato, << <<NATO, 25>>, <<nato, 25>> >> >> >>,
          << <<u2, << <<u2, 25>> >> >> >>}

\* The variables of a specification that is not the one being run
MapperIdle ==
    /\ mspec = <<>> /\ msources = {} /\ minplace = FALSE
    /\ morig = <<>> /\ mspans = <<>> /\ mtodo = {} /\ mout = <<>>
    /\ msrc = "" /\ mi = 0 /\ mnew = <<>> /\ medits = 0
    /\ mpc = "off" /\ mruns = 0 /\ mfirst = <<>>

PipeIdle ==
    /\ pkind = "off" /\ ptable = <<>> /\ pdocs = <<>> /\ pbatch = <<>>
    /\ pbefore = <<>> /\ pgroup = <<>> /\ p1 = 0 /\ p2 = 0 /\ pacc = <<>>
    /\ pbuf = <<>> /\ pexh = {} /\ plvl = 0 /\ ppc = "off" /\ pcur = 0
    /\ pcopy = NoItem /\ pyield = <<>> /\ perr = "" /\ pruns = 0

CloneIdle ==
    /\ cdoc = <<>> /\ ctable = <<>> /\ ckind = "off" /\ cpc = "off"
    /\ cres = NoDoc

-----------------------------------------------------------------------------
(* Specification SpecClone: create_new_doc applied to one document, by a   *)
(* ModelAnnotator (no table) and by a TruecaseAnnotator.                   *)

InitClone ==
    /\ MapperIdle /\ PipeIdle
    /\ cdoc \in Docs
    /\ ckind \in {"model", "truecase"}
    /\ ctable \in IF ckind = "model" THEN {<<>>} ELSE Tables
    /\ cpc = "start"
    /\ cres = NoDoc

\* ModelAnnotator.create_new_doc(cdoc)
CloneModel ==
    /\ cpc = "start" /\ ckind = "model"
    /\ cres' = BaseCreateNewDoc(cdoc)
    /\ cpc' = "done"
    /\ UNCHANGED <<cdoc, ckind, ctable, mvars, pvars>>

\* TruecaseAnnotator.create_new_doc(cdoc) returns
CloneTruecase ==
    /\ cpc = "start" /\ ckind = "truecase"
    /\ TruecaseRaises(cdoc, ctable) = ""
    /\ cres' = TruecaseCreateNewDoc(cdoc, ctable)
    /\ cpc' = "done"
    /\ UNCHANGED <<cdoc, ckind, ctable, mvars, pvars>>

\* TruecaseAnnotator.create_new_doc(cdoc) raises
CloneRaise ==
    /\ cpc = "start" /\ ckind = "truecase"
    /\ TruecaseRaises(cdoc, ctable) # ""
    /\ cpc' = TruecaseRaises(cdoc, ctable)
    /\ UNCHANGED <<cdoc, ckind, ctable, cres, mvars, pvars>>

NextClone == CloneModel \/ CloneTruecase \/ CloneRaise

SpecClone == InitClone /\ [][NextClone]_vars

-----------------------------------------------------------------------------
(* LabelMapper.  The `mapping` argument is a sequence of entries in dict   *)
(* order, each [str, keys, val]: str says the key is a single string       *)
(* (keys then holds that one label), otherwise the key is the tuple keys.  *)
(* The flat mapping is a function from labels to labels.                   *)

\* Mutant of SetKey: an existing key is not overwritten
SetKeyFirstWins(m, k, v) ==
    IF k \in DOMAIN m THEN m
    ELSE [x \in DOMAIN m \cup {k} |-> IF x = k THEN v ELSE m[x]]

\* self.mapping[k] = v
SetKey(m, k, v) == [x \in DOMAIN m \cup {k} |-> IF x = k THEN v ELSE m[x]]

RECURSIVE SetKeys(_, _, _)
\* for key in k: self.mapping[key] = v
SetKeys(m, keys, v) ==
    IF keys = <<>> THEN m
    ELSE SetKeys(SetKey(m, Head(keys), v), Tail(keys), v)

RECURSIVE PopulateMapping(_, _)
\* LabelMapper.__init__, lines 216-222: the entries in dict order onto m
PopulateMapping(m, entries) ==
    IF entries = <<>> THEN m
    ELSE LET e == Head(entries)
             m2 == IF e.str THEN SetKey(m, e.keys[1], e.val)
                   ELSE SetKeys(m, e.keys, e.val)
         IN  PopulateMapping(m2, Tail(entries))

\* self.mapping after __init__ (<<>> is the empty function)
Mapping(entries) == PopulateMapping(<<>>, entries)

\* Lines 232-235: the span relabelled when its label is a key
MapSpan(m, span) ==
    IF span[3] \in DOMAIN m THEN <<span[1], span[2], m[span[3]]>> ELSE span

\* set(self.sources).intersection(doc.spans)
SourcesPresent(sources, spans) == sources \cap DOMAIN spans

-----------------------------------------------------------------------------
(* Inputs of LabelMapper.                                                  *)

MaxSpans == 2
MaxRuns == 2
MaxEdits == 1

Entries ==
    { [str |-> FALSE, keys |-> <<"DATE", "EVENT">>, val |-> "MISC"],
      [str |-> TRUE,  keys |-> <<"MISC">>, val |-> "PERSON"],
      [str |-> TRUE,  keys |-> <<"DATE">>, val |-> "PERSON"],
      [str |-> FALSE, keys |-> <<"DATE", "PERSON">>, val |-> "MISC"] }

\* A dict holds each of its keys once
MappingSpecs == {<<>>} \cup {<<e>> : e \in Entries}
                  \cup {q \in {<<e, f>> : e \in Entries, f \in Entries} :
                           q[1] # q[2]}

SpanSet == {<<0, 1>>, <<2, 3>>} \X {"DATE", "PERSON", "MISC"}
Span3(p) == <<p[1][1], p[1][2], p[2]>>
Groups == UNION {{[i \in 1..n |-> Span3(g[i])] : g \in [1..n -> SpanSet]}
                 : n \in 0..MaxSpans}

OtherGroup == << <<1, 2, "DATE">>, <<1, 2, "ORG">> >>

SourceSets == {{"ner"}, {"ner", "other", "gold"}}

-----------------------------------------------------------------------------
(* Specification SpecMapper: find_spans consumed to exhaustion on one      *)
(* document, up to MaxRuns times in sequence.                              *)

InitMapper ==
    /\ CloneIdle /\ PipeIdle
    /\ mspec \in MappingSpecs
    /\ msources \in SourceSets
    /\ minplace \in BOOLEAN
    /\ \E g \in Groups :
          morig = [n \in {"ner", "other"} |-> IF n = "ner" THEN g ELSE OtherGroup]
    /\ mspans = morig
    /\ mtodo = {}
    /\ msrc = "" /\ mi = 0 /\ mnew = <<>>
    /\ mout = <<>>
    /\ mpc = "idle"
    /\ medits = 0
    /\ mruns = 0
    /\ mfirst = <<>>

minput == <<mspec, msources, minplace, morig>>

\* find_spans(doc) is called: a generator is created, none of its code runs
MapperCall ==
    /\ mpc \in {"idle", "done"}
    /\ mruns < MaxRuns
    /\ mpc' = "created"
    /\ mruns' = mruns + 1
    /\ mout' = <<>>
    /\ UNCHANGED <<minput, mspans, mtodo, msrc, mi, mnew, medits, mfirst,
                   cvars, pvars>>

\* The consumer calls next(): the generator starts at line 229, where the
\* sources to visit are computed, or goes on after the yield of line 240
MapperResume ==
    /\ mpc \in {"created", "yielded"}
    /\ mpc' = "running"
    /\ mtodo' = IF mpc = "created" THEN SourcesPresent(msources, mspans)
                ELSE mtodo
    /\ UNCHANGED <<minput, mspans, msrc, mi, mnew, mout, medits, mruns,
                   mfirst, cvars, pvars>>

\* The outer loop takes any source not yet visited (a set is iterated in no
\* particular order) and empties new_group: lines 229-231
MapperEnter(source) ==
    /\ mpc = "running" /\ msrc = ""
    /\ source \in mtodo
    /\ msrc' = source
    /\ mi' = 1
    /\ mnew' = <<>>
    /\ UNCHANGED <<minput, mspans, mtodo, mout, mpc, medits, mruns, mfirst,
                   cvars, pvars>>

\* Mutant of MapperVisit: the append / yield moved inside the `if` of line 232
MapperVisitOnlyMapped ==
    /\ mpc = "running" /\ msrc # ""
    /\ mi <= Len(mspans[msrc])
    /\ LET old == mspans[msrc][mi]
           span == MapSpan(Mapping(mspec), old)
           hit == old[3] \in DOMAIN Mapping(mspec)
       IN  IF minplace
           THEN /\ mnew' = IF hit THEN Append(mnew, span) ELSE mnew
                /\ UNCHANGED <<mout, mpc>>
           ELSE /\ mout' = IF hit THEN Append(mout, span) ELSE mout
                /\ mpc' = IF hit THEN "yielded" ELSE mpc
                /\ mnew' = mnew
    /\ mi' = mi + 1
    /\ UNCHANGED <<minput, mspans, mtodo, msrc, medits, mruns, mfirst,
                   cvars, pvars>>

\* One iteration of the inner loop, lines 231-240: the next span of the
\* group, relabelled if its label is a key, is appended to new_group (in
\* place) or yielded, which suspends the generator
MapperVisit ==
    /\ mpc = "running" /\ msrc # ""
    /\ mi <= Len(mspans[msrc])
    /\ LET span == MapSpan(Mapping(mspec), mspans[msrc][mi])
       IN  IF minplace
           THEN /\ mnew' = Append(mnew, span)
                /\ UNCHANGED <<mout, mpc>>
           ELSE /\ mout' = Append(mout, span)
                /\ mpc' = "yielded"
                /\ mnew' = mnew
    /\ mi' = mi + 1
    /\ UNCHANGED <<minput, mspans, mtodo, msrc, medits, mruns, mfirst,
                   cvars, pvars>>

\* The inner loop ends: in place, the group is overwritten (lines 242-243)
MapperLeave ==
    /\ mpc = "running" /\ msrc # ""
    /\ mi > Len(mspans[msrc])
    /\ mspans' = IF minplace THEN [mspans EXCEPT ![msrc] = mnew] ELSE mspans
    /\ mtodo' = mtodo \ {msrc}
    /\ msrc' = ""
    /\ UNCHANGED <<minput, mi, mnew, mout, mpc, medits, mruns, mfirst,
                   cvars, pvars>>

\* The outer loop ends and find_spans is exhausted
MapperEnd ==
    /\ mpc = "running" /\ msrc = ""
    /\ mtodo = {}
    /\ mpc' = "done"
    /\ mfirst' = IF mruns = 1 THEN mspans ELSE mfirst
    /\ UNCHANGED <<minput, mspans, mtodo, msrc, mi, mnew, mout, medits,
                   mruns, cvars, pvars>>

\* While the generator is suspended at the yield of line 240 its consumer
\* runs: here it may relabel the span the inner loop visits next
CallerRelabel ==
    /\ mpc = "yielded"
    /\ medits < MaxEdits
    /\ mi <= Len(mspans[msrc])
    /\ mspans[msrc][mi][3] # "EVENT"
    /\ mspans' = [mspans EXCEPT ![msrc][mi][3] = "EVENT"]
    /\ medits' = medits + 1
    /\ UNCHANGED <<minput, mtodo, msrc, mi, mnew, mout, mpc, mruns, mfirst,
                   cvars, pvars>>

NextMapper ==
    \/ MapperCall
    \/ MapperResume
    \/ \E source \in {"ner", "other", "gold"} : MapperEnter(source)
    \/ MapperVisit
    \/ MapperLeave
    \/ MapperEnd
    \/ CallerRelabel

SpecMapper == InitMapper /\ [][NextMapper]_vars

-----------------------------------------------------------------------------
(* pipe.  self.model.pipeline is a sequence of stages; stage k's           *)
(* proc.pipe(stream) is a generator that collects up to pbatch[k] items of *)
(* its input, processes them as one batch and yields them in order.  The   *)
(* generators are numbered 0 (the cloning generator of line 47) to         *)
(* Len(pbatch) (the last stage, which zip pulls as stream2).               *)

NumStages == Len(pbatch)

\* self.create_new_doc(d), dispatched on the annotator's class
CreateNewDoc(doc) ==
    IF pkind = "truecase" THEN TruecaseCreateNewDoc(doc, ptable)
    ELSE BaseCreateNewDoc(doc)

CreateNewDocRaises(doc) ==
    IF pkind = "truecase" THEN TruecaseRaises(doc, ptable) ELSE ""

\* The entities a named-entity stage finds: one per token that starts with an
\* uppercase letter, labelled by its casing (the stages are external to the
\* repository; any function of the clone's texts serves)
NerEnts(words) ==
    LET hits == SelectSeq([i \in 1..Len(words) |-> i],
                          LAMBDA i : IsUpperCh(words[i][1]))
    IN  [j \in 1..Len(hits) |->
            <<hits[j] - 1, hits[j],
              IF IsUpper(words[hits[j]]) THEN "ORG" ELSE "PER">>]

\* What stage k does to one item of a batch; the last stage sets the entities
Infer(k, item) ==
    [item EXCEPT !.ran = @ + 1,
                 !.ents = IF k = NumStages THEN NerEnts(item.doc.words) ELSE @]

\* Mutant of BatchFull: the stage collects its whole input before processing
BatchNeverFull(k) == FALSE

\* Stage k has collected a full batch
BatchFull(k) == Len(pacc[k]) >= pbatch[k]

\* The buffer of itertools.tee: the documents one view has pulled and the
\* other has not
TeeBuffer == IF p1 >= p2 THEN p1 - p2 ELSE p2 - p1

\* Generator k hands an item to its consumer: stage k + 1, or zip
Deliver(k, item) ==
    IF k = NumStages
    THEN /\ pcopy' = item
         /\ ppc' = "attach"
         /\ UNCHANGED <<pacc, plvl>>
    ELSE /\ pacc' = [pacc EXCEPT ![k + 1] = Append(@, item)]
         /\ plvl' = k + 1
         /\ UNCHANGED <<pcopy, ppc>>

\* Generator k is exhausted: StopIteration reaches stage k + 1, or zip
Stop(k) ==
    /\ pexh' = pexh \cup {k}
    /\ IF k = NumStages
       THEN ppc' = "done" /\ plvl' = plvl
       ELSE ppc' = ppc /\ plvl' = k + 1

pinput == <<pkind, ptable, pdocs, pbatch, pbefore, pruns>>

\* [Span(doc, ent.start, ent.end, ent.label_) for ent in doc_copy.ents]
SpansOf(item) == [j \in 1..Len(item.ents) |->
                     <<item.ents[j][1], item.ents[j][2], item.ents[j][3]>>]

-----------------------------------------------------------------------------
(* Inputs of pipe.                                                         *)

MaxDocs == 4
MaxStages == 2
MaxBatch == 3
MaxPipes == 2

Tok(text, ws, ss) == [text |-> text, ws |-> ws, sent_start |-> ss]

\* The document at position i of the stream
PipeDoc(i) ==
    CASE i % 3 = 1 -> <<Tok(nato, TRUE, TRUE), Tok(UN, FALSE, FALSE)>>
      [] i % 3 = 2 -> <<Tok(Nato, TRUE, TRUE), Tok(NATO, TRUE, FALSE)>>
      [] OTHER     -> <<Tok(NATO, FALSE, TRUE)>>

PipeTables ==
    { <<>>,
      << <<nato, << <<nato, 25>>, <<NATO, 10>> >> >> >>,
      << <<nato, <<>> >> >> }

\* What the span group of the annotator's name may hold before the first pipe
InitGroups == { <<>>, << <<0, 1, "OLD">> >> }

BatchSizes == UNION {[1..k -> 1..MaxBatch] : k \in 0..MaxStages}

-----------------------------------------------------------------------------
(* Specification Spec: pipe(docs) consumed by repeated next() until it     *)
(* ends or raises, then possibly called again on the same documents.       *)

Init ==
    /\ CloneIdle /\ MapperIdle
    /\ pkind \in {"model", "truecase"}
    /\ ptable \in IF pkind = "model" THEN {<<>>} ELSE PipeTables
    /\ \E n \in 0..MaxDocs : pdocs = [i \in 1..n |-> PipeDoc(i)]
    /\ pbatch \in BatchSizes
    /\ \E g \in InitGroups : pbefore = [i \in 1..Len(pdocs) |-> g]
    /\ pgroup = pbefore
    /\ p1 = 0 /\ p2 = 0
    /\ pacc = [k \in 1..Len(pbatch) |-> <<>>]
    /\ pbuf = [k \in 1..Len(pbatch) |-> <<>>]
    /\ pexh = {}
    /\ plvl = 0
    /\ ppc = "idle"
    /\ pcur = 0
    /\ pcopy = NoItem
    /\ pyield = <<>>
    /\ perr = ""
    /\ pruns = 1

\* The consumer calls next() on the generator pipe returned
ConsumerNext ==
    /\ ppc = "idle"
    /\ ppc' = "zip1"
    /\ UNCHANGED <<pinput, pgroup, p1, p2, pacc, pbuf, pexh, plvl, pcur,
                   pcopy, pyield, perr, cvars, mvars>>

\* Mutant of PullStream1: the group is reset as soon as the document is taken
PullStream1Reset ==
    /\ ppc = "zip1"
    /\ IF p1 < Len(pdocs)
       THEN /\ p1' = p1 + 1
            /\ pcur' = p1 + 1
            /\ ppc' = "zip2"
            /\ plvl' = NumStages
            /\ pgroup' = [pgroup EXCEPT ![p1 + 1] = <<>>]
       ELSE /\ ppc' = "done"
            /\ UNCHANGED <<p1, pcur, plvl, pgroup>>
    /\ UNCHANGED <<pinput, p2, pacc, pbuf, pexh, pcopy, pyield,
                   perr, cvars, mvars>>

\* zip pulls stream1 (line 53): the next document, or the end of the loop
PullStream1 ==
    /\ ppc = "zip1"
    /\ IF p1 < Len(pdocs)
       THEN /\ p1' = p1 + 1
            /\ pcur' = p1 + 1
            /\ ppc' = "zip2"
            /\ plvl' = NumStages
       ELSE /\ ppc' = "done"
            /\ UNCHANGED <<p1, pcur, plvl>>
    /\ UNCHANGED <<pinput, pgroup, p2, pacc, pbuf, pexh, pcopy, pyield,
                   perr, cvars, mvars>>

\* The cloning generator (line 47) pulls its tee view and yields the clone
CloneYield ==
    /\ ppc = "zip2" /\ plvl = 0
    /\ p2 < Len(pdocs)
    /\ CreateNewDocRaises(pdocs[p2 + 1]) = ""
    /\ p2' = p2 + 1
    /\ Deliver(0, MkItem(p2 + 1, CreateNewDoc(pdocs[p2 + 1])))
    /\ UNCHANGED <<pinput, pgroup, p1, pbuf, pexh, pcur, pyield, perr,
                   cvars, mvars>>

\* create_new_doc raises inside the cloning generator (lines 145-148, 167)
CloneFail ==
    /\ ppc = "zip2" /\ plvl = 0
    /\ p2 < Len(pdocs)
    /\ CreateNewDocRaises(pdocs[p2 + 1]) # ""
    /\ p2' = p2 + 1
    /\ ppc' = "raised"
    /\ perr' = CreateNewDocRaises(pdocs[p2 + 1])
    /\ UNCHANGED <<pinput, pgroup, p1, pacc, pbuf, pexh, plvl, pcur, pcopy,
                   pyield, cvars, mvars>>

\* The cloning generator finds its tee view exhausted
CloneStop ==
    /\ ppc = "zip2" /\ plvl = 0
    /\ p2 = Len(pdocs)
    /\ Stop(0)
    /\ UNCHANGED <<pinput, pgroup, p1, p2, pacc, pbuf, pcur, pcopy, pyield,
                   perr, cvars, mvars>>

\* Stage k asks its input for one more item of the batch
StageDemand(k) ==
    /\ ppc = "zip2" /\ plvl = k
    /\ pbuf[k] = <<>>
    /\ ~BatchFull(k)
    /\ (k - 1) \notin pexh
    /\ plvl' = k - 1
    /\ UNCHANGED <<pinput, pgroup, p1, p2, pacc, pbuf, pexh, ppc, pcur,
                   pcopy, pyield, perr, cvars, mvars>>

\* Stage k processes the batch it collected
StageRun(k) ==
    /\ ppc = "zip2" /\ plvl = k
    /\ pbuf[k] = <<>> /\ pacc[k] # <<>>
    /\ BatchFull(k) \/ (k - 1) \in pexh
    /\ pbuf' = [pbuf EXCEPT ![k] = [j \in 1..Len(pacc[k]) |-> Infer(k, pacc[k][j])]]
    /\ pacc' = [pacc EXCEPT ![k] = <<>>]
    /\ UNCHANGED <<pinput, pgroup, p1, p2, pexh, plvl, ppc, pcur, pcopy,
                   pyield, perr, cvars, mvars>>

\* Stage k raises while processing the batch it collected
StageFail(k) ==
    /\ ppc = "zip2" /\ plvl = k
    /\ pbuf[k] = <<>> /\ pacc[k] # <<>>
    /\ BatchFull(k) \/ (k - 1) \in pexh
    /\ ppc' = "raised"
    /\ perr' = "StageError"
    /\ UNCHANGED <<pinput, pgroup, p1, p2, pacc, pbuf, pexh, plvl, pcur,
                   pcopy, pyield, cvars, mvars>>

\* Stage k yields the next item of its processed batch
StageYield(k) ==
    /\ ppc = "zip2" /\ plvl = k
    /\ pbuf[k] # <<>>
    /\ pbuf' = [pbuf EXCEPT ![k] = Tail(@)]
    /\ Deliver(k, Head(pbuf[k]))
    /\ UNCHANGED <<pinput, pgroup, p1, p2, pexh, pcur, pyield, perr,
                   cvars, mvars>>

\* Stage k finds its input exhausted with nothing collected
StageStop(k) ==
    /\ ppc = "zip2" /\ plvl = k
    /\ pbuf[k] = <<>> /\ pacc[k] = <<>>
    /\ (k - 1) \in pexh
    /\ Stop(k)
    /\ UNCHANGED <<pinput, pgroup, p1, p2, pacc, pbuf, pcur, pcopy, pyield,
                   perr, cvars, mvars>>

\* Mutant of Attach: the copy is yielded instead of the document
AttachYieldCopy ==
    /\ ppc = "attach"
    /\ pgroup' = [pgroup EXCEPT ![pcur] = <<>> \o SpansOf(pcopy)]
    /\ pyield' = Append(pyield, [doc |-> pcopy.of, clone |-> TRUE])
    /\ ppc' = "idle"
    /\ UNCHANGED <<pinput, p1, p2, pacc, pbuf, pexh, plvl, pcur, pcopy,
                   perr, cvars, mvars>>

\* Mutant of Attach: the entities are appended to what the group held
AttachAppend ==
    /\ ppc = "attach"
    /\ pgroup' = [pgroup EXCEPT ![pcur] = @ \o SpansOf(pcopy)]
    /\ pyield' = Append(pyield, [doc |-> pcur, clone |-> FALSE])
    /\ ppc' = "idle"
    /\ UNCHANGED <<pinput, p1, p2, pacc, pbuf, pexh, plvl, pcur, pcopy,
                   perr, cvars, mvars>>

\* The loop body, lines 54-60: the group is reset, filled from the copy's
\* entities, and the document is yielded
Attach ==
    /\ ppc = "attach"
    /\ pgroup' = [pgroup EXCEPT ![pcur] = <<>> \o SpansOf(pcopy)]
    /\ pyield' = Append(pyield, [doc |-> pcur, clone |-> FALSE])
    /\ ppc' = "idle"
    /\ UNCHANGED <<pinput, p1, p2, pacc, pbuf, pexh, plvl, pcur, pcopy,
                   perr, cvars, mvars>>

\* pipe is called again on the same documents, once the first call ended
PipeAgain ==
    /\ ppc = "done"
    /\ pruns < MaxPipes
    /\ pruns' = pruns + 1
    /\ pbefore' = pgroup
    /\ p1' = 0 /\ p2' = 0
    /\ pacc' = [k \in 1..Len(pbatch) |-> <<>>]
    /\ pbuf' = [k \in 1..Len(pbatch) |-> <<>>]
    /\ pexh' = {}
    /\ plvl' = 0
    /\ ppc' = "idle"
    /\ pcur' = 0
    /\ pcopy' = NoItem
    /\ pyield' = <<>>
    /\ UNCHANGED <<pkind, ptable, pdocs, pbatch, pgroup, perr, cvars, mvars>>

Next ==
    \/ ConsumerNext
    \/ PullStream1
    \/ CloneYield
    \/ CloneFail
    \/ CloneStop
    \/ \E k \in 1..NumStages : StageDemand(k)
    \/ \E k \in 1..NumStages : StageRun(k)
    \/ \E k \in 1..NumStages : StageFail(k)
    \/ \E k \in 1..NumStages : StageYield(k)
    \/ \E k \in 1..NumStages : StageStop(k)
    \/ Attach
    \/ PipeAgain

Spec == Init /\ [][Next]_vars

-----------------------------------------------------------------------------
(* Properties of create_new_doc (SpecClone).                               *)

\* First letter uppercase, the rest lowercase
TitleCased(s) ==
    /\ Len(s) > 0 /\ s[1] \in UpperChars
    /\ \A i \in 2..Len(s) : s[i] \in LowerChars

\* Every character an uppercase letter
AllUppercase(s) == Len(s) > 0 /\ \A i \in 1..Len(s) : s[i] \in UpperChars

\* C5 (as claimed): the clone of either create_new_doc has as many tokens as
\* the original, the same followed-by-whitespace flag at every position, the
\* last one included, and no span groups.
C5_CloneKeepsLayout ==
    cpc = "done" =>
        /\ Len(cres.words) = Len(cdoc)
        /\ Len(cres.spaces) = Len(cdoc)
        /\ \A i \in 1..Len(cdoc) : cres.spaces[i] = cdoc[i].ws
        /\ cres.spans = <<>>

\* C6: TruecaseAnnotator.create_new_doc never replaces a title-cased token
\* by an all-uppercase variant, whatever the frequency table.
C6_NoTitleToUpper ==
    (cpc = "done" /\ ckind = "truecase") =>
        \A i \in 1..Len(cdoc) :
            TitleCased(cdoc[i].text) =>
                \/ cres.words[i] = cdoc[i].text
                \/ ~AllUppercase(cres.words[i])

\* C6's case: a mid-sentence "Nato" whose own form is below the threshold
\* and whose most frequent variant is "NATO" has been cloned
C6_Witness ==
    /\ cpc = "done" /\ ckind = "truecase"
    /\ ctable = << <<nato, << <<NATO, 25>>, <<Nato, 10>> >> >> >>
    /\ \E i \in 1..Len(cdoc) :
          /\ cdoc[i].text = Nato /\ ~cdoc[i].sent_start
          /\ cres.words[i] = Nato

\* The conditions under which C7 lets a token's text change
C7_Eligible(tok, tbl) ==
    /\ \A k \in 1..Len(tok.text) : tok.text[k] \in UpperChars \cup LowerChars
    /\ tok.text[1] \in UpperChars
    /\ \/ AllUppercase(tok.text) /\ Len(tok.text) > 2
       \/ ~tok.sent_start
    /\ \E e \in 1..Len(tbl) :
          /\ tbl[e][1] = Lower(tok.text)
          /\ \A v \in 1..Len(tbl[e][2]) :
                tbl[e][2][v][1] = tok.text => tbl[e][2][v][2] < 25

\* The variant of maximal frequency, the last such in the table's key order
C7_IsBest(freqs, variant) ==
    \E v \in 1..Len(freqs) :
        /\ freqs[v][1] = variant
        /\ \A w \in 1..Len(freqs) : freqs[w][2] <= freqs[v][2]
        /\ \A w \in (v + 1)..Len(freqs) : freqs[w][2] < freqs[v][2]

\* C7: a token's text in the truecased clone is the original text unless the
\* token is eligible; an eligible token gets the variant of maximal
\* frequency (the last one on ties), except a title-cased token whose best
\* variant is all-uppercase, which keeps its text.
C7_TruecaseTexts ==
    (cpc = "done" /\ ckind = "truecase") =>
        \A i \in 1..Len(cdoc) :
            LET tok == cdoc[i]
                new == cres.words[i]
            IN  IF C7_Eligible(tok, ctable)
                THEN LET freqs == Lookup(ctable, Lower(tok.text))
                     IN  \/ C7_IsBest(freqs, new)
                         \/ /\ new = tok.text
                            /\ TitleCased(tok.text)
                            /\ \E v \in 1..Len(freqs) :
                                  /\ C7_IsBest(freqs, freqs[v][1])
                                  /\ AllUppercase(freqs[v][1])
                ELSE new = tok.text

\* C7's case: a token was rewritten to the later of two variants that tie
\* for the maximal frequency
C7_Witness ==
    /\ cpc = "done" /\ ckind = "truecase"
    /\ ctable = << <<nato, << <<Nato, 10>>, <<nato, 10>> >> >> >>
    /\ \E i \in 1..Len(cdoc) : cdoc[i].text = NATO /\ cres.words[i] = nato

-----------------------------------------------------------------------------
(* Properties of LabelMapper (SpecMapper).                                 *)

\* The label is a key of the mapping argument
IsKey(entries, label) ==
    \E e \in 1..Len(entries) :
        \E k \in 1..Len(entries[e].keys) : entries[e].keys[k] = label

\* The canonical label of a key: the value of the last entry that holds it
Canonical(entries, label) ==
    LET holds(e) == \E k \in 1..Len(entries[e].keys) :
                        entries[e].keys[k] = label
        last == CHOOSE e \in 1..Len(entries) :
                    holds(e) /\ \A f \in (e + 1)..Len(entries) : ~holds(f)
    IN  entries[last].val

\* The label a span is meant to carry after mapping
Mapped(entries, label) ==
    IF IsKey(entries, label) THEN Canonical(entries, label) ELSE label

\* C2 (as claimed): in new-group mode every yielded triple comes from a span
\* of a requested group whose label is a key of the mapping (on a document
\* the consumer left alone between the yields).
C2_NewGroupYieldsOnlyMapped ==
    (mpc = "done" /\ ~minplace /\ medits = 0) =>
        \A t \in 1..Len(mout) :
            \E source \in msources \cap DOMAIN morig :
                \E i \in 1..Len(morig[source]) :
                    LET span == morig[source][i]
                    IN  /\ IsKey(mspec, span[3])
                        /\ mout[t] = <<span[1], span[2],
                                       Canonical(mspec, span[3])>>

\* C3 (as claimed): in in-place mode a second find_spans leaves every span
\* group as the first one left it, for every mapping.
C3_InPlaceIdempotent ==
    (mpc = "done" /\ minplace /\ mruns >= 2) => mspans = mfirst

\* No canonical label is itself a key mapped to another label
NoChain(entries) ==
    \A label \in {"DATE", "EVENT", "PERSON", "MISC"} :
        IsKey(entries, label) =>
            Mapped(entries, Canonical(entries, label)) = Canonical(entries, label)

\* C3 (amended): in in-place mode a second find_spans leaves every span
\* group as the first one left it, when no canonical label of the mapping
\* is itself a key mapped to a different label.
C3_InPlaceIdempotentNoChain ==
    (mpc = "done" /\ minplace /\ mruns >= 2 /\ NoChain(mspec)) =>
        mspans = mfirst

\* C3's case: a second run has ended on a document whose first run relabelled
\* a span, under a mapping with a colliding key and no chain
C3_Witness ==
    /\ mpc = "done" /\ minplace /\ mruns = 2
    /\ NoChain(mspec) /\ Len(mspec) = 2
    /\ IsKey(<<mspec[1]>>, "DATE") /\ IsKey(<<mspec[2]>>, "DATE")
    /\ mfirst # morig
    /\ mspans = mfirst

\* C4: in in-place mode, after find_spans is exhausted, every requested
\* group present on the document has the same spans in the same order with
\* the same boundaries, each label mapped when it is a key and kept
\* otherwise; nothing was yielded.
C4_InPlaceRelabels ==
    (mpc = "done" /\ minplace /\ mruns = 1) =>
        /\ mout = <<>>
        /\ DOMAIN mspans = DOMAIN morig
        /\ \A source \in msources \cap DOMAIN morig :
              /\ Len(mspans[source]) = Len(morig[source])
              /\ \A i \in 1..Len(morig[source]) :
                    LET old == morig[source][i]
                        new == mspans[source][i]
                    IN  /\ new[1] = old[1] /\ new[2] = old[2]
                        /\ new[3] = Mapped(mspec, old[3])

\* C4's case: the mapping {(DATE, EVENT): MISC} has run in place over the
\* group [(0,1,DATE), (2,3,PERSON)]
C4_Witness ==
    /\ mpc = "done" /\ minplace /\ mruns = 1
    /\ mspec = << [str |-> FALSE, keys |-> <<"DATE", "EVENT">>, val |-> "MISC"] >>
    /\ morig["ner"] = << <<0, 1, "DATE">>, <<2, 3, "PERSON">> >>
    /\ mspans["ner"] = << <<0, 1, "MISC">>, <<2, 3, "PERSON">> >>

-----------------------------------------------------------------------------
(* Properties of pipe (Spec).                                              *)

\* C1: pipe yields the input documents themselves, in order, none skipped,
\* duplicated or replaced by its clone, and all of them once it has ended.
C1_YieldsInputInOrder ==
    /\ Len(pyield) <= Len(pdocs)
    /\ \A j \in 1..Len(pyield) : pyield[j] = [doc |-> j, clone |-> FALSE]
    /\ ppc = "done" => Len(pyield) = Len(pdocs)

\* C1's case: a stream of four documents went through two batching stages
C1_Witness ==
    /\ ppc = "done" /\ pbatch = <<3, 2>>
    /\ Len(pdocs) = 4 /\ Len(pyield) = 4

\* The entities inference leaves on the clone of the document at position i
InferredSpans(i) ==
    IF NumStages = 0 THEN <<>>
    ELSE LET words == IF pkind = "truecase"
                      THEN TruecaseCreateNewDoc(pdocs[i], ptable).words
                      ELSE [t \in 1..Len(pdocs[i]) |-> pdocs[i][t].text]
         IN  NerEnts(words)

\* C8: once a document is yielded, its span group under the annotator's name
\* holds exactly the entities of its inferred clone, in order, whatever it
\* held before (also when pipe runs a second time over the document).
C8_GroupIsInferredEntities ==
    \A j \in 1..Len(pyield) : pgroup[pyield[j].doc] = InferredSpans(pyield[j].doc)

\* C8's case: a second pipe over a document whose group the first pipe filled
C8_Witness ==
    /\ ppc = "done" /\ pruns = 2 /\ pkind = "model" /\ NumStages = 2
    /\ Len(pdocs) >= 2 /\ Len(pyield) = Len(pdocs)
    /\ pbefore[2] = << <<0, 1, "PER">>, <<1, 2, "ORG">> >>
    /\ pgroup[2] = << <<0, 1, "PER">>, <<1, 2, "ORG">> >>

\* The document at position i was pulled for inference at most, and its
\* inference did not complete: it was never cloned, its cloning raised, or
\* its clone waits in a stage's batch or before a later stage
Incomplete(i) ==
    \/ i > p2
    \/ i = p2 /\ perr \in {"RuntimeError", "IndexError"}
    \/ \E k \in 1..NumStages : \E j \in 1..Len(pacc[k]) : pacc[k][j].of = i
    \/ \E k \in 1..(NumStages - 1) : \E j \in 1..Len(pbuf[k]) : pbuf[k][j].of = i

\* C9: an error raised by a stage or by the cloning step reaches the consumer
\* of pipe, which then makes no further progress; no document whose inference
\* did not complete is yielded or has its span group reset or written.
C9_ErrorsPropagate ==
    /\ perr # "" <=> ppc = "raised"
    /\ ppc = "raised" =>
          \A i \in 1..Len(pdocs) :
              Incomplete(i) =>
                  /\ \A j \in 1..Len(pyield) : pyield[j].doc # i
                  /\ pgroup[i] = pbefore[i]

\* C9's case: a stage raised on a later batch, after documents were yielded,
\* with documents pulled from the stream whose inference did not complete
C9_Witness ==
    /\ ppc = "raised" /\ perr = "StageError"
    /\ Len(pyield) >= 1
    /\ pcur > Len(pyield) /\ Incomplete(pcur)
    /\ pbefore[pcur] # <<>>

\* C10 (as claimed): the two tee views never differ by more than one
\* document, whatever the stages' batch sizes.
C10_TeeLockstep == TeeBuffer <= 1

RECURSIVE SumSeq(_)
SumSeq(q) == IF q = <<>> THEN 0 ELSE Head(q) + SumSeq(Tail(q))

\* The sum over the stages of (batch size - 1), and at least one
TeeBound ==
    LET room == SumSeq([k \in 1..NumStages |-> pbatch[k] - 1])
    IN  IF room > 1 THEN room ELSE 1

\* C10 (amended): the two tee views never differ by more than the sum over
\* the stages of (batch size - 1) documents, or by more than one document
\* if that sum is smaller, whatever the length of the stream.
C10_TeeBounded == TeeBuffer <= TeeBound

\* C10's case: in a stream of four documents the inference view is three
\* documents ahead of the pass-through view, the most stages batching by
\* two and by three allow
C10_Witness ==
    /\ pbatch = <<2, 3>> /\ Len(pdocs) = 4
    /\ p1 = 1 /\ p2 = 4 /\ TeeBuffer = TeeBound

====
